---- MODULE Spec2Model ----
(***************************************************************************)
(* Cubie-level Rubik's cube of cube.cpp: the Cube value (two permutation   *)
(* vectors, two orientation vectors), Cube::perform_move and the           *)
(* coordinate functions of the two-phase algorithm.                        *)
(*                                                                         *)
(* Vectors are functions on 0..size-1, as the C++ code indexes them.  The  *)
(* per-face tables are tuples; At reads them with a 0-based index.         *)
(***************************************************************************)
EXTENDS Integers, Sequences, FiniteSets, TLC

(***************************************************************************)
(* Enumerations of cube.h (included by cube.cpp).  The values follow the   *)
(* order in which cube.cpp lists the identifiers: corners URF..DRB, edges  *)
(* UR..BR with the UD-slice edges last (the numbering under which the      *)
(* documented range 0..40319 of the edge permutation coordinate holds),    *)
(* moves U, U2, U', L, L2, L', F, ..., D'.                                 *)
(***************************************************************************)
CORNER_URF == 0
CORNER_UFL == 1
CORNER_ULB == 2
CORNER_UBR == 3
CORNER_DFR == 4
CORNER_DLF == 5
CORNER_DBL == 6
CORNER_DRB == 7

EDGE_UR == 0
EDGE_UF == 1
EDGE_UL == 2
EDGE_UB == 3
EDGE_DR == 4
EDGE_DF == 5
EDGE_DL == 6
EDGE_DB == 7
EDGE_FR == 8
EDGE_FL == 9
EDGE_BL == 10
EDGE_BR == 11

TWIST_NONE == 0
TWIST_CW == 1
TWIST_CCW == 2

FLIP_NONE == 0
FLIP_FLIP == 1

MOVE_U == 0
MOVE_U2 == 1
MOVE_UP == 2
MOVE_L == 3
MOVE_L2 == 4
MOVE_LP == 5
MOVE_F == 6
MOVE_F2 == 7
MOVE_FP == 8
MOVE_R == 9
MOVE_R2 == 10
MOVE_RP == 11
MOVE_B == 12
MOVE_B2 == 13
MOVE_BP == 14
MOVE_D == 15
MOVE_D2 == 16
MOVE_DP == 17

\* The 18 move variants.
Moves ==
    { MOVE_U, MOVE_U2, MOVE_UP, MOVE_L, MOVE_L2, MOVE_LP,
      MOVE_F, MOVE_F2, MOVE_FP, MOVE_R, MOVE_R2, MOVE_RP,
      MOVE_B, MOVE_B2, MOVE_BP, MOVE_D, MOVE_D2, MOVE_DP }

\* The sizes of the vectors the constructors build.
NumCorners == 8
NumEdges == 12

CornerIdx == 0 .. (NumCorners - 1)
EdgeIdx == 0 .. (NumEdges - 1)

\* vec[i] of a brace-initialised std::vector held as a tuple.
At(vec, i) == vec[i + 1]

(***************************************************************************)
(* Helper functions                                                        *)
(***************************************************************************)
RECURSIVE binom_num(_, _, _, _)
binom_num(n, k, ii, num) ==
    IF ii < k THEN binom_num(n, k, ii + 1, num * (n - ii)) ELSE num

RECURSIVE binom_denom(_, _, _)
binom_denom(k, ii, denom) ==
    IF ii <= k THEN binom_denom(k, ii + 1, denom * ii) ELSE denom

\* Faulty variant of binom: the division by k! left out.
binom_no_div(n, k) == binom_num(n, k, 0, 1)

\* n * (n - 1) * ... * (n - k + 1) / k!
binom(n, k) == binom_num(n, k, 0, 1) \div binom_denom(k, 2, 1)

(***************************************************************************)
(* Constructors                                                            *)
(***************************************************************************)
Cube(corner_perm, corner_orient, edge_perm, edge_orient) ==
    [ corner_permutation |-> corner_perm,
      corner_orientation |-> corner_orient,
      edge_permutation   |-> edge_perm,
      edge_orientation   |-> edge_orient ]

\* The default constructor: the solved state.
SolvedCube ==
    Cube([i \in CornerIdx |-> i], [i \in CornerIdx |-> 0],
         [i \in EdgeIdx |-> i], [i \in EdgeIdx |-> 0])

(***************************************************************************)
(* Cube::perform_move                                                      *)
(***************************************************************************)
UMoves == {MOVE_U, MOVE_U2, MOVE_UP}
LMoves == {MOVE_L, MOVE_L2, MOVE_LP}
FMoves == {MOVE_F, MOVE_F2, MOVE_FP}
RMoves == {MOVE_R, MOVE_R2, MOVE_RP}
BMoves == {MOVE_B, MOVE_B2, MOVE_BP}
DMoves == {MOVE_D, MOVE_D2, MOVE_DP}

\* First switch: the tables stay empty when no case matches.
corners_moved(move) ==
    IF move \in UMoves THEN <<CORNER_URF, CORNER_UFL, CORNER_ULB, CORNER_UBR>>
    ELSE IF move \in LMoves THEN <<CORNER_UFL, CORNER_DLF, CORNER_DBL, CORNER_ULB>>
    ELSE IF move \in FMoves THEN <<CORNER_URF, CORNER_DFR, CORNER_DLF, CORNER_UFL>>
    ELSE IF move \in RMoves THEN <<CORNER_URF, CORNER_UBR, CORNER_DRB, CORNER_DFR>>
    ELSE IF move \in BMoves THEN <<CORNER_UBR, CORNER_ULB, CORNER_DBL, CORNER_DRB>>
    ELSE IF move \in DMoves THEN <<CORNER_DFR, CORNER_DRB, CORNER_DBL, CORNER_DLF>>
    ELSE << >>

edges_moved(move) ==
    IF move \in UMoves THEN <<EDGE_UF, EDGE_UL, EDGE_UB, EDGE_UR>>
    ELSE IF move \in LMoves THEN <<EDGE_UL, EDGE_FL, EDGE_DL, EDGE_BL>>
    ELSE IF move \in FMoves THEN <<EDGE_UF, EDGE_FR, EDGE_DF, EDGE_FL>>
    ELSE IF move \in RMoves THEN <<EDGE_UR, EDGE_BR, EDGE_DR, EDGE_FR>>
    ELSE IF move \in BMoves THEN <<EDGE_UB, EDGE_BL, EDGE_DB, EDGE_BR>>
    ELSE IF move \in DMoves THEN <<EDGE_DF, EDGE_DR, EDGE_DB, EDGE_DL>>
    ELSE << >>

\* Faulty variant of corner_twist: the last R entry TWIST_CW for TWIST_CCW.
corner_twist_r_slip(move) ==
    IF move \in UMoves THEN <<TWIST_NONE, TWIST_NONE, TWIST_NONE, TWIST_NONE>>
    ELSE IF move \in LMoves THEN <<TWIST_CCW, TWIST_CW, TWIST_CCW, TWIST_CW>>
    ELSE IF move \in FMoves THEN <<TWIST_CCW, TWIST_CW, TWIST_CCW, TWIST_CW>>
    ELSE IF move \in RMoves THEN <<TWIST_CW, TWIST_CCW, TWIST_CW, TWIST_CW>>
    ELSE IF move \in BMoves THEN <<TWIST_CW, TWIST_CCW, TWIST_CW, TWIST_CCW>>
    ELSE IF move \in DMoves THEN <<TWIST_NONE, TWIST_NONE, TWIST_NONE, TWIST_NONE>>
    ELSE << >>

corner_twist(move) ==
    IF move \in UMoves THEN <<TWIST_NONE, TWIST_NONE, TWIST_NONE, TWIST_NONE>>
    ELSE IF move \in LMoves THEN <<TWIST_CCW, TWIST_CW, TWIST_CCW, TWIST_CW>>
    ELSE IF move \in FMoves THEN <<TWIST_CCW, TWIST_CW, TWIST_CCW, TWIST_CW>>
    ELSE IF move \in RMoves THEN <<TWIST_CW, TWIST_CCW, TWIST_CW, TWIST_CCW>>
    ELSE IF move \in BMoves THEN <<TWIST_CW, TWIST_CCW, TWIST_CW, TWIST_CCW>>
    ELSE IF move \in DMoves THEN <<TWIST_NONE, TWIST_NONE, TWIST_NONE, TWIST_NONE>>
    ELSE << >>

\* Faulty variant of edge_flip: the first L entry FLIP_FLIP for FLIP_NONE.
edge_flip_l_slip(move) ==
    IF move \in UMoves THEN <<FLIP_NONE, FLIP_NONE, FLIP_NONE, FLIP_NONE>>
    ELSE IF move \in LMoves THEN <<FLIP_FLIP, FLIP_NONE, FLIP_NONE, FLIP_NONE>>
    ELSE IF move \in FMoves THEN <<FLIP_FLIP, FLIP_FLIP, FLIP_FLIP, FLIP_FLIP>>
    ELSE IF move \in RMoves THEN <<FLIP_NONE, FLIP_NONE, FLIP_NONE, FLIP_NONE>>
    ELSE IF move \in BMoves THEN <<FLIP_FLIP, FLIP_FLIP, FLIP_FLIP, FLIP_FLIP>>
    ELSE IF move \in DMoves THEN <<FLIP_NONE, FLIP_NONE, FLIP_NONE, FLIP_NONE>>
    ELSE << >>

edge_flip(move) ==
    IF move \in UMoves THEN <<FLIP_NONE, FLIP_NONE, FLIP_NONE, FLIP_NONE>>
    ELSE IF move \in LMoves THEN <<FLIP_NONE, FLIP_NONE, FLIP_NONE, FLIP_NONE>>
    ELSE IF move \in FMoves THEN <<FLIP_FLIP, FLIP_FLIP, FLIP_FLIP, FLIP_FLIP>>
    ELSE IF move \in RMoves THEN <<FLIP_NONE, FLIP_NONE, FLIP_NONE, FLIP_NONE>>
    ELSE IF move \in BMoves THEN <<FLIP_FLIP, FLIP_FLIP, FLIP_FLIP, FLIP_FLIP>>
    ELSE IF move \in DMoves THEN <<FLIP_NONE, FLIP_NONE, FLIP_NONE, FLIP_NONE>>
    ELSE << >>

\* Faulty variant of turn_amt: the counter-clockwise moves fall into the
\* clockwise arm.
turn_amt_no_prime(move, stack) ==
    IF move \in {MOVE_U, MOVE_L, MOVE_F, MOVE_R, MOVE_B, MOVE_D,
                 MOVE_UP, MOVE_LP, MOVE_FP, MOVE_RP, MOVE_BP, MOVE_DP} THEN 1
    ELSE IF move \in {MOVE_U2, MOVE_L2, MOVE_F2, MOVE_R2, MOVE_B2, MOVE_D2} THEN 2
    ELSE stack

\* Second switch.  `stack` is whatever the uninitialised local holds when no
\* case matches.
turn_amt(move, stack) ==
    IF move \in {MOVE_U, MOVE_L, MOVE_F, MOVE_R, MOVE_B, MOVE_D} THEN 1
    ELSE IF move \in {MOVE_U2, MOVE_L2, MOVE_F2, MOVE_R2, MOVE_B2, MOVE_D2} THEN 2
    ELSE IF move \in {MOVE_UP, MOVE_LP, MOVE_FP, MOVE_RP, MOVE_BP, MOVE_DP} THEN 3
    ELSE stack

\* Faulty variant of delta_sum: the first delta taken turn times.
delta_sum_first(deltas, ii, jj, turn, acc) ==
    acc + turn * At(deltas, ii % Len(deltas))

\* The inner loop: the sum of deltas[(ii + jj) % size] for jj in 0..turn-1.
RECURSIVE delta_sum(_, _, _, _, _)
delta_sum(deltas, ii, jj, turn, acc) ==
    IF jj < turn
    THEN delta_sum(deltas, ii, jj + 1, turn,
                   acc + At(deltas, (ii + jj) % Len(deltas)))
    ELSE acc

\* One of the two outer loops: from iteration ii on, writing into the copies
\* new_perm / new_orient while reading the receiver's perm / orient.
RECURSIVE move_loop(_, _, _, _, _, _, _, _, _)
move_loop(ii, moved, deltas, turn, modulus, perm, orient, new_perm, new_orient) ==
    IF ii < Len(moved)
    THEN LET from == At(moved, ii)
             to   == At(moved, (ii + turn) % Len(moved))
             sum  == delta_sum(deltas, ii, 0, turn, 0)
         IN move_loop(ii + 1, moved, deltas, turn, modulus, perm, orient,
                      [new_perm EXCEPT ![to] = perm[from]],
                      [new_orient EXCEPT ![to] = (orient[from] + sum) % modulus])
    ELSE [perm |-> new_perm, orient |-> new_orient]

\* Faulty variant of new_vectors: the edge loop takes the corner loop's
\* modulus 3.
new_vectors_edge_mod3(this, move, stack) ==
    LET turn == turn_amt(move, stack)
        c == move_loop(0, corners_moved(move), corner_twist(move), turn, 3,
                       this.corner_permutation, this.corner_orientation,
                       this.corner_permutation, this.corner_orientation)
        e == move_loop(0, edges_moved(move), edge_flip(move), turn, 3,
                       this.edge_permutation, this.edge_orientation,
                       this.edge_permutation, this.edge_orientation)
    IN Cube(c.perm, c.orient, e.perm, e.orient)

\* Faulty variant of new_vectors: the edge loop shifts by one step whatever
\* the turn amount.
new_vectors_edge_quarter(this, move, stack) ==
    LET turn == turn_amt(move, stack)
        c == move_loop(0, corners_moved(move), corner_twist(move), turn, 3,
                       this.corner_permutation, this.corner_orientation,
                       this.corner_permutation, this.corner_orientation)
        e == move_loop(0, edges_moved(move), edge_flip(move), 1, 2,
                       this.edge_permutation, this.edge_orientation,
                       this.edge_permutation, this.edge_orientation)
    IN Cube(c.perm, c.orient, e.perm, e.orient)

\* The four new_ vectors: copies of the receiver's, then written by the two
\* loops.
new_vectors(this, move, stack) ==
    LET turn == turn_amt(move, stack)
        c == move_loop(0, corners_moved(move), corner_twist(move), turn, 3,
                       this.corner_permutation, this.corner_orientation,
                       this.corner_permutation, this.corner_orientation)
        e == move_loop(0, edges_moved(move), edge_flip(move), turn, 2,
                       this.edge_permutation, this.edge_orientation,
                       this.edge_permutation, this.edge_orientation)
    IN Cube(c.perm, c.orient, e.perm, e.orient)

\* Faulty variant of perform_move: the loops write the members themselves.
perform_move_in_place(this, move, stack) ==
    [ this   |-> new_vectors(this, move, stack),
      ret    |-> new_vectors(this, move, stack),
      failed |-> FALSE ]

\* The call this->perform_move(move): `this` is the receiver as the call leaves
\* it (the members are only read), `ret` the Cube returned.  The function has
\* no other way out (no throw, no error value): `failed` is FALSE on every path.
perform_move(this, move, stack) ==
    [ this   |-> this,
      ret    |-> new_vectors(this, move, stack),
      failed |-> FALSE ]

(***************************************************************************)
(* Normal coordinates                                                      *)
(***************************************************************************)
\* ret = base * ret + orientation[ii] for ii in 0 .. size - 2.
RECURSIVE orientation_loop(_, _, _, _, _)
orientation_loop(orientation, size, base, ii, ret) ==
    IF ii < size - 1
    THEN orientation_loop(orientation, size, base, ii + 1,
                          base * ret + orientation[ii])
    ELSE ret

\* Faulty variant of coord_corner_orientation: the last entry is not dropped.
coord_corner_orientation_all(c) ==
    orientation_loop(c.corner_orientation, NumCorners + 1, 3, 0, 0)

coord_corner_orientation(c) ==
    orientation_loop(c.corner_orientation, NumCorners, 3, 0, 0)

coord_edge_orientation(c) ==
    orientation_loop(c.edge_orientation, NumEdges, 2, 0, 0)

\* The number of jj in ii+1 .. size-1 with vec[jj] < vec[ii].
low_count(vec, size, ii) ==
    Cardinality({jj \in (ii + 1) .. (size - 1) : vec[jj] < vec[ii]})

RECURSIVE corner_permutation_loop(_, _, _, _, _)
corner_permutation_loop(perm, size, ii, ret, factorial) ==
    IF ii >= 0
    THEN corner_permutation_loop(perm, size, ii - 1,
                                 ret + low_count(perm, size, ii) * factorial,
                                 factorial * (size - ii))
    ELSE ret

coord_corner_permutation(c) ==
    corner_permutation_loop(c.corner_permutation, NumCorners, NumCorners - 1, 0, 1)

\* std::find(edges.begin(), edges.end(), curr_edge) != edges.end()
found(edges, curr_edge) == \E x \in 1 .. Len(edges) : edges[x] = curr_edge

\* The while loop of coord_slice_sorted, entered with n already decremented:
\* n runs from size - 1 down to 0.
RECURSIVE slice_scan(_, _, _, _, _, _)
slice_scan(perm, edges, n, k, pos_rank, order) ==
    IF n >= 0
    THEN IF found(edges, perm[n])
         THEN slice_scan(perm, edges, n - 1, k - 1, pos_rank + binom(n, k),
                         Append(order, perm[n]))
         ELSE slice_scan(perm, edges, n - 1, k, pos_rank, order)
    ELSE [pos_rank |-> pos_rank, order |-> order]

\* Faulty variant of high_count: the comparison of low_count.
high_count_low(order, ii) ==
    Cardinality({jj \in (ii + 1) .. (Len(order) - 1) : At(order, jj) < At(order, ii)})

\* The number of jj in ii+1 .. size-1 with order[jj] > order[ii].
high_count(order, ii) ==
    Cardinality({jj \in (ii + 1) .. (Len(order) - 1) : At(order, jj) > At(order, ii)})

RECURSIVE perm_rank_loop(_, _, _, _)
perm_rank_loop(order, ii, perm_rank, factorial) ==
    IF ii >= 0
    THEN perm_rank_loop(order, ii - 1,
                        perm_rank + high_count(order, ii) * factorial,
                        factorial * (Len(order) - ii))
    ELSE perm_rank

coord_slice_sorted(c, edges) ==
    LET scan == slice_scan(c.edge_permutation, edges, NumEdges - 1, Len(edges),
                           0, << >>)
    IN 24 * scan.pos_rank
         + perm_rank_loop(scan.order, Len(scan.order) - 1, 0, 1)

coord_ud_sorted(c) ==
    coord_slice_sorted(c, <<EDGE_FR, EDGE_FL, EDGE_BL, EDGE_BR>>)

\* Faulty variant of coord_rl_sorted: the edge set of the UD slice.
coord_rl_sorted_ud(c) ==
    coord_slice_sorted(c, <<EDGE_FR, EDGE_FL, EDGE_BL, EDGE_BR>>)

coord_rl_sorted(c) ==
    coord_slice_sorted(c, <<EDGE_UF, EDGE_UB, EDGE_DB, EDGE_DF>>)

coord_fb_sorted(c) ==
    coord_slice_sorted(c, <<EDGE_UR, EDGE_UL, EDGE_DL, EDGE_DR>>)

(***************************************************************************)
(* Meta coordinates                                                        *)
(***************************************************************************)
\* Faulty variant of edge_permutation_calc: the % 24 left out.
edge_permutation_calc_no_mod(rl_sorted, fb_sorted) ==
    (24 * rl_sorted) + fb_sorted

edge_permutation_calc(rl_sorted, fb_sorted) ==
    (24 * rl_sorted) + (fb_sorted % 24)

ud_unsorted_calc(ud_sorted) == ud_sorted \div 24

ud_permutation_calc(ud_sorted) == ud_sorted % 24

coord_edge_permutation(c) ==
    edge_permutation_calc(coord_rl_sorted(c), coord_fb_sorted(c))

coord_ud_unsorted(c) == ud_unsorted_calc(coord_ud_sorted(c))

coord_ud_permutation(c) == ud_permutation_calc(coord_ud_sorted(c))


(***************************************************************************)
(* The caller: a search component that holds a Cube and calls perform_move *)
(* on it, keeping the Cube returned.                                       *)
(***************************************************************************)
VARIABLES
    start,      \* the Cube as constructed
    before,     \* the receiver of the last call, as it was when called
    receiver,   \* the receiver of the last call, as the call left it
    cube,       \* the Cube the last call returned (the constructed one at first)
    failed,     \* whether the last call reported a failure
    hist        \* the move arguments of the calls made so far

vars == <<start, before, receiver, cube, failed, hist>>

\* Bounds of the exploration.
MaxMoves == 3
MaxLawMoves == 4
MaxIntMoves == 2
MaxSeed == 2

IsPrefix(s, t) == Len(s) <= Len(t) /\ SubSeq(t, 1, Len(s)) = s

\* [R, U, R', U'] six times.
Commutator6 ==
    [i \in 1 .. 24 |-> At(<<MOVE_R, MOVE_U, MOVE_RP, MOVE_UP>>, (i - 1) % 4)]

\* What the local turn_amt holds before the second switch: it is read only
\* after a case assigned it, so only a call no case matches sees stack garbage.
StackInts(m) == IF m \in Moves THEN {0} ELSE -1 .. 4

\* Move arguments, the 18 variants and two ints that are none of them.
MoveInts == Moves \cup {MOVE_U - 1, MOVE_DP + 1}

SameFace(m1, m2) == corners_moved(m1) = corners_moved(m2)

\* Vectors for the four-argument constructor; the caller may pass anything,
\* also a sequence that is no bijection (seed 1).
perm_sample(size, s) == [i \in 0 .. (size - 1) |-> (i * (s + 1) + s) % size]
orient_sample(size, base, s) ==
    [i \in 0 .. (size - 1) |-> (((i + 1) * s) \div 2) % base]

SampleCubes ==
    { Cube(perm_sample(NumCorners, a), orient_sample(NumCorners, 3, o),
           perm_sample(NumEdges, c), orient_sample(NumEdges, 2, o)) :
        a \in 0 .. MaxSeed, c \in 0 .. MaxSeed, o \in 0 .. MaxSeed }

InitWith(c) ==
    /\ start = c
    /\ before = c
    /\ receiver = c
    /\ cube = c
    /\ failed = FALSE
    /\ hist = << >>

\* cube = cube.perform_move(m)
Call(m) ==
    \E stack \in StackInts(m) :
        LET r == perform_move(cube, m, stack)
        IN /\ before' = cube
           /\ receiver' = r.this
           /\ cube' = r.ret
           /\ failed' = r.failed
           /\ hist' = Append(hist, m)
           /\ UNCHANGED start

\* From the solved state: any of the 18 moves, MaxMoves deep, and the
\* commutator sequence to its end.
Init == InitWith(SolvedCube)

PerformMove(m) ==
    /\ Len(hist) < MaxMoves \/ IsPrefix(Append(hist, m), Commutator6)
    /\ Call(m)

Next == \E m \in Moves : PerformMove(m)

Spec == Init /\ [][Next]_vars

\* From any constructed state: turns of one face, MaxLawMoves deep.
InitAny == \E c \in SampleCubes : InitWith(c)

TurnFace(m) ==
    /\ Len(hist) < MaxLawMoves
    /\ hist # << >> => SameFace(m, hist[1])
    /\ Call(m)

NextAny == \E m \in Moves : TurnFace(m)

SpecAny == InitAny /\ [][NextAny]_vars

\* From the solved state: any int as the move argument.
PerformInt(m) ==
    /\ Len(hist) < MaxIntMoves
    /\ Call(m)

NextInt == \E m \in MoveInts : PerformInt(m)

SpecInt == Init /\ [][NextInt]_vars


(***************************************************************************)
(* Properties                                                              *)
(***************************************************************************)
Last(h) == h[Len(h)]

InTable(tbl, i) == \E x \in 1 .. Len(tbl) : tbl[x] = i

IsBijection(perm, idx) ==
    /\ \A i \in idx : perm[i] \in idx
    /\ \A i, j \in idx : perm[i] = perm[j] => i = j

RECURSIVE Sum(_, _)
Sum(vec, size) == IF size = 0 THEN 0 ELSE vec[size - 1] + Sum(vec, size - 1)

\* 0 for an even permutation, 1 for an odd one (the number of inversions mod 2).
PermParity(perm, size) ==
    Cardinality({p \in (0 .. (size - 1)) \X (0 .. (size - 1)) :
                    p[1] < p[2] /\ perm[p[1]] > perm[p[2]]}) % 2

UDSlice == {EDGE_FR, EDGE_FL, EDGE_BL, EDGE_BR}

\* The four UD-slice edges are all contained in the UD-slice.
UDInSlice(c) == \A i \in UDSlice : c.edge_permutation[i] \in UDSlice

\* C1: a quarter turn of a face made 4 times in a row, and a half turn of a
\* face made 2 times in a row, from any constructed state with orientations in
\* range, give back that state in all four vectors.
C1_OrderLaw ==
    Len(hist) \in {2, 4} =>
        \A m \in Moves :
            \/ turn_amt(m, 0) = 1 /\ hist = <<m, m, m, m>>
            \/ turn_amt(m, 0) = 2 /\ hist = <<m, m>>
            => cube = start

C1_Witness ==
    /\ hist = <<MOVE_L, MOVE_L, MOVE_L, MOVE_L>>
    /\ cube = start
    /\ before # start
    /\ start # SolvedCube

\* C2: X then X', and X' then X, from any constructed state give back that
\* state in all four vectors, for each of the six faces.
C2_InverseLaw ==
    Len(hist) = 2 =>
        \A m1, m2 \in Moves :
            /\ hist = <<m1, m2>>
            /\ SameFace(m1, m2)
            /\ {turn_amt(m1, 0), turn_amt(m2, 0)} = {1, 3}
            => cube = start

C2_Witness ==
    /\ hist = <<MOVE_FP, MOVE_F>>
    /\ cube = start
    /\ before # start
    /\ start # SolvedCube

LegalState(c) ==
    /\ IsBijection(c.corner_permutation, CornerIdx)
    /\ IsBijection(c.edge_permutation, EdgeIdx)
    /\ \A i \in CornerIdx : c.corner_orientation[i] \in {0, 1, 2}
    /\ Sum(c.corner_orientation, NumCorners) % 3 = 0
    /\ \A i \in EdgeIdx : c.edge_orientation[i] \in {0, 1}
    /\ Sum(c.edge_orientation, NumEdges) % 2 = 0

\* C3: every state reached from the solved state by the 18 moves has both
\* permutations bijections, corner orientations in {0,1,2} summing to 0 mod 3
\* and edge orientations in {0,1} summing to 0 mod 2.
C3_LegalState == LegalState(cube)

C3_Witness ==
    /\ LegalState(cube)
    /\ \E i \in CornerIdx : cube.corner_orientation[i] = 2
    /\ \E i \in EdgeIdx : cube.edge_orientation[i] = 1
    /\ \E i \in EdgeIdx : cube.edge_permutation[i] # i

\* C4: in every state reached from the solved state the corner permutation
\* and the edge permutation have the same parity.
C4_Parity ==
    PermParity(cube.corner_permutation, NumCorners)
        = PermParity(cube.edge_permutation, NumEdges)

C4_Witness ==
    /\ PermParity(cube.corner_permutation, NumCorners) = 1
    /\ PermParity(cube.edge_permutation, NumEdges) = 1

\* C5: a call with one of the 18 moves leaves the receiver's four vectors as
\* they were, and the Cube returned agrees with the receiver at every corner
\* and edge position outside the turned face's four, in cubie and orientation.
C5_PureBoundedFootprint ==
    (hist # << >> /\ Last(hist) \in Moves) =>
        /\ receiver = before
        /\ \A i \in CornerIdx :
               ~InTable(corners_moved(Last(hist)), i) =>
                   /\ cube.corner_permutation[i] = before.corner_permutation[i]
                   /\ cube.corner_orientation[i] = before.corner_orientation[i]
        /\ \A i \in EdgeIdx :
               ~InTable(edges_moved(Last(hist)), i) =>
                   /\ cube.edge_permutation[i] = before.edge_permutation[i]
                   /\ cube.edge_orientation[i] = before.edge_orientation[i]

C5_Witness ==
    /\ hist # << >>
    /\ Last(hist) = MOVE_B2
    /\ receiver = before
    /\ cube # before
    /\ start # SolvedCube

\* C6: a call whose move argument is none of the 18 variants reports a failure
\* to the caller instead of returning an ordinary Cube.
C6_UnsupportedMoveFails ==
    (hist # << >> /\ Last(hist) \notin Moves) => failed

\* C7: [R, U, R', U'] made six times from the solved state ends in the solved
\* state.
C7_Commutator == hist = Commutator6 => cube = SolvedCube

C7_Witness ==
    /\ hist = Commutator6
    /\ cube = SolvedCube
    /\ before # SolvedCube

\* C8: in every state reached from the solved state the corner orientation
\* coordinate is in 0..2186, the edge orientation coordinate in 0..2047, the
\* corner permutation coordinate in 0..40319, the three sorted slice
\* coordinates in 0..11879, the unsorted UD-slice coordinate in 0..494 and the
\* UD-slice permutation coordinate in 0..23.
C8_CoordinateRanges ==
    /\ coord_corner_orientation(cube) \in 0 .. 2186
    /\ coord_edge_orientation(cube) \in 0 .. 2047
    /\ coord_corner_permutation(cube) \in 0 .. 40319
    /\ coord_ud_sorted(cube) \in 0 .. 11879
    /\ coord_rl_sorted(cube) \in 0 .. 11879
    /\ coord_fb_sorted(cube) \in 0 .. 11879
    /\ coord_ud_unsorted(cube) \in 0 .. 494
    /\ coord_ud_permutation(cube) \in 0 .. 23

C8_Witness ==
    /\ C8_CoordinateRanges
    /\ coord_corner_orientation(cube) > 0
    /\ coord_edge_orientation(cube) > 0
    /\ coord_corner_permutation(cube) > 0
    /\ coord_ud_unsorted(cube) < 494
    /\ coord_ud_permutation(cube) > 0

\* C9 as written: in every state reached from the solved state, also one
\* whose UD-slice edges have left the UD slice, the edge permutation
\* coordinate lies in 0..40319.
C9_EdgePermutationRangeAnyState == coord_edge_permutation(cube) \in 0 .. 40319

\* C9: in every state reached from the solved state in which the four
\* UD-slice edges are all contained in the UD-slice, the edge permutation
\* coordinate lies in 0..40319.
C9_EdgePermutationRangeInSlice ==
    UDInSlice(cube) => coord_edge_permutation(cube) \in 0 .. 40319

C9_Witness ==
    /\ UDInSlice(cube)
    /\ cube.edge_permutation # SolvedCube.edge_permutation
    /\ \E i \in UDSlice : cube.edge_permutation[i] # i
    /\ coord_edge_permutation(cube) \in 0 .. 40319
    /\ coord_edge_permutation(cube) # coord_edge_permutation(SolvedCube)

RLSlice == {EDGE_UF, EDGE_UB, EDGE_DB, EDGE_DF}
FBSlice == {EDGE_UR, EDGE_UL, EDGE_DL, EDGE_DR}

RECURSIVE Factorial(_)
Factorial(n) == IF n <= 1 THEN 1 ELSE n * Factorial(n - 1)

\* Pascal's rule.
RECURSIVE Choose(_, _)
Choose(n, k) ==
    IF k = 0 THEN 1
    ELSE IF n = 0 THEN 0
    ELSE Choose(n - 1, k - 1) + Choose(n - 1, k)

\* The edges outside the UD slice, in the order of the positions they occupy.
NonUDArrangement(c) ==
    SelectSeq([i \in 1 .. NumEdges |-> c.edge_permutation[i - 1]],
              LAMBDA e : e \notin UDSlice)

\* The lexicographic rank of a sequence of distinct numbers among the
\* arrangements of its elements.
LexRank(seq) ==
    LET smaller(i) == Cardinality({j \in (i + 1) .. Len(seq) : seq[j] < seq[i]})
        term[i \in 0 .. Len(seq)] ==
            IF i = 0 THEN 0
            ELSE term[i - 1] + smaller(i) * Factorial(Len(seq) - i)
    IN term[Len(seq)]

\* C12 as written: in every state the edge permutation coordinate equals the
\* lexicographic rank, computed directly, of the arrangement of the 8 edges
\* outside the UD slice.
C12_EqualsLexRank ==
    coord_edge_permutation(cube) = LexRank(NonUDArrangement(cube))

\* The k positions, highest first, whose rank in the combinatorial number
\* system is rank.
RECURSIVE DecodePositions(_, _)
DecodePositions(rank, k) ==
    IF k = 0 THEN << >>
    ELSE LET p == CHOOSE q \in EdgeIdx :
                      Choose(q, k) <= rank /\ Choose(q + 1, k) > rank
         IN <<p>> \o DecodePositions(rank - Choose(p, k), k - 1)

\* The order of the edges of S in which each has as many larger edges after it
\* as the factorial-base digits of rank say.
RECURSIVE DecodeOrder(_, _)
DecodeOrder(rank, S) ==
    IF S = {} THEN << >>
    ELSE LET f == Factorial(Cardinality(S) - 1)
             e == CHOOSE x \in S : Cardinality({y \in S : y > x}) = rank \div f
         IN <<e>> \o DecodeOrder(rank % f, S \ {e})

\* The occupants of the 8 positions outside the UD slice, read back from a
\* value x of the edge permutation coordinate.
DecodeEdgePermutation(x) ==
    LET pos   == DecodePositions(x \div 576, 4)
        rl    == DecodeOrder((x \div 24) % 24, RLSlice)
        fb    == DecodeOrder(x % 24, FBSlice)
        rlpos == {pos[j] : j \in 1 .. 4}
        fbpos == (EdgeIdx \ UDSlice) \ rlpos
        above(i, P) == Cardinality({q \in P : q > i})
    IN [i \in EdgeIdx \ UDSlice |->
           IF i \in rlpos THEN rl[1 + above(i, rlpos)]
                          ELSE fb[1 + above(i, fbpos)]]

\* C12: in every state reached from the solved state whose four UD-slice
\* edges are all contained in the UD-slice, the edge permutation coordinate
\* determines the arrangement of the 8 other edges: the positions of the
\* RL-slice edges are read back from it in the combinatorial number system,
\* the order of the RL-slice edges and the order of the FB-slice edges in the
\* factorial number system.
C12_DeterminesArrangement ==
    UDInSlice(cube) =>
        DecodeEdgePermutation(coord_edge_permutation(cube))
            = [i \in EdgeIdx \ UDSlice |-> cube.edge_permutation[i]]

C12_Witness ==
    /\ UDInSlice(cube)
    /\ cube.edge_permutation[EDGE_UF] \in FBSlice
    /\ cube.edge_permutation[EDGE_DR] # EDGE_DR
    /\ C12_DeterminesArrangement
    /\ coord_edge_permutation(cube) # LexRank(NonUDArrangement(cube))

\* C13: from any constructed state with orientations in range, a quarter
\* turn X made twice gives the state a single X2 gives, and X followed by X2
\* gives the state a single X' gives, for each of the six faces.
C13_SameFaceComposition ==
    Len(hist) = 2 =>
        \A m \in Moves :
            (SameFace(m, hist[1]) /\ turn_amt(hist[1], 0) = 1) =>
                /\ (hist = <<hist[1], hist[1]>> /\ turn_amt(m, 0) = 2)
                       => cube = perform_move(start, m, 0).ret
                /\ (/\ SameFace(hist[2], hist[1])
                    /\ turn_amt(hist[2], 0) = 2
                    /\ turn_amt(m, 0) = 3)
                       => cube = perform_move(start, m, 0).ret

C13_Witness ==
    /\ hist = <<MOVE_L, MOVE_L2>>
    /\ cube = perform_move(start, MOVE_LP, 0).ret
    /\ cube # start
    /\ start # SolvedCube
    /\ \E i \in CornerIdx : cube.corner_orientation[i] # start.corner_orientation[i]

====
